---- MODULE Spec2Model ----
(***************************************************************************)
(* A model of CTP::ThreadPool (thread_pool.h / thread_pool.cpp): the three *)
(* priority queues, the mutex m_guard, the condition variable              *)
(* m_cvSleepCtrl, the worker threads started by impl::Init, the submitters *)
(* that run Schedule/AddJob and the thread that runs impl::Shutdown.       *)
(* The destructor and the defaulted move constructor of ThreadPool act on  *)
(* m_impl, the unique_ptr to the impl.                                     *)
(*                                                                         *)
(* Every step is one atomic access to the shared state.  m_running is read *)
(* by the workers and written by Shutdown without m_guard; the model lets  *)
(* these accesses interleave freely, so a racing read sees the old or the  *)
(* new value.                                                              *)
(***************************************************************************)
EXTENDS Integers, Sequences, FiniteSets, TLC

\* ------------------------------------------------------------------ bounds
MaxThreads == 2
MaxJobs == 2
MaxShutdownCalls == 2

\* --------------------------------------------------------------- constants
\* enum class Priority : size_t { Normal, High, Critical }
Normal == 0
High == 1
Critical == 2
Priority == {Normal, High, Critical}

VARIABLES
    threadCount,        \* the argument of ThreadPool::ThreadPool / impl::Init
    m_running,          \* impl::m_running
    m_guard,            \* owner of impl::m_guard, Unlocked when free
    m_jobsByPriority,   \* impl::m_jobsByPriority: Priority -> queue of job ids
    m_workers,          \* impl::m_workers: joinable() of each std::thread
    pc,                 \* position of each worker thread in its lambda
    job,                \* the local std::function job of each worker, NoJob if empty
    cpc,                \* position of each submitter inside Schedule/AddJob
    cjob,               \* the job a submitter is adding
    submitted,          \* the priority of each job scheduled so far, by job id
    result,             \* the shared state of each task's future
    spc,                \* position of the thread inside impl::Shutdown
    joinIdx,            \* index of the range-for over m_workers in Shutdown
    sdCalls,            \* number of calls of Shutdown that have returned
    sdError,            \* an exception left Shutdown
    m_impl,             \* ThreadPool::m_impl of each ThreadPool object
    startedLate,        \* history: jobs each worker dequeued after m_running was cleared
    started,            \* history: how many times each job was dequeued by a worker
    preShutdown         \* history: jobs scheduled before Shutdown was first called

vars == <<threadCount, m_running, m_guard, m_jobsByPriority, m_workers, pc, job,
          cpc, cjob, submitted, result, spc, joinIdx, sdCalls, sdError,
          m_impl, startedLate, started, preShutdown>>

\* impl::Init: for (int i = 0; i < threadCount; i++) m_workers.push_back(std::thread(...))
WorkerCount(n) == n
Workers == 1..WorkerCount(threadCount)
Callers == {1, 2}
NoJob == 0
Unlocked == <<>>
WorkerId(w) == <<"worker", w>>
CallerId(c) == <<"caller", c>>

\* The ThreadPool objects of the program: the one constructed with threadCount
\* and one that can be move-constructed from it.  m_impl of an object is
\* "unborn" before the object exists, "impl" while it points to the impl,
\* "nullptr" after it was moved from, and "deleted" once the object is
\* destroyed and its unique_ptr has deleted the impl.
PoolObjects == {"first", "second"}
Owner == {o \in PoolObjects : m_impl[o] = "impl"}
Reclaimed == \E o \in PoolObjects : m_impl[o] = "deleted"

\* ------------------------------------------------------------ pure helpers
Range(s) == {s[i] : i \in 1..Len(s)}
Count(s, x) == Cardinality({i \in 1..Len(s) : s[i] = x})

\* std::map<Priority, ..., std::greater<Priority>>: iteration is in descending key order
MapOrderAscending == <<Normal, High, Critical>>
MapOrder == <<Critical, High, Normal>>

\* std::queue: emplace, front, pop
QueueEmplaceFront(q, j) == <<j>> \o q
QueueEmplace(q, j) == Append(q, j)
QueueFront(q) == Head(q)
QueuePopNothing(q) == q
QueuePop(q) == Tail(q)

\* the lambda given to m_cvSleepCtrl.wait
AllQueuesEmpty == \A p \in Priority : m_jobsByPriority[p] = <<>>
WaitPredicateTrue == TRUE
WaitPredicate == IF m_running = FALSE THEN TRUE ELSE ~AllQueuesEmpty

\* the range-for over m_jobsByPriority after the wait: the first non-empty
\* queue in iteration order, or -1 when every queue is empty
RECURSIVE ScanFrom(_, _)
ScanFrom(q, i) ==
    IF i > Len(MapOrder) THEN -1
    ELSE IF q[MapOrder[i]] = <<>> THEN ScanFrom(q, i + 1)
    ELSE MapOrder[i]
DequeueScan(q) == ScanFrom(q, 1)

\* std::packaged_task::operator(): the outcome stored in the shared state
PackagedTaskNotRun(throws) == "pending"
PackagedTaskOutcome(throws) == IF throws THEN "error" ELSE "value"
\* whether an exception leaves the stored lambda [job] { (*job)(); }
JobEscapesIfThrows(throws) == throws
JobEscapes(throws) == FALSE

\* condition_variable::notify_one: the sets of waiters it may wake
NotifyEverybody(blocked) == {blocked}
NotifyNobody(blocked) == {{}}
NotifyOne(blocked) == IF blocked = {} THEN {{}} ELSE {{w} : w \in blocked}
\* condition_variable::notify_all
NotifyAll(blocked) == blocked

\* the jobs that have been emplaced, and those whose call of Schedule has returned
Emplaced == 1..Len(submitted)
Scheduled == Emplaced \ {cjob[c] : c \in Callers}

Blocked == {w \in Workers : pc[w] = "blocked"}

\* ------------------------------------------------------------------- Init
Init ==
    /\ threadCount \in 0..MaxThreads
    /\ m_running = TRUE
    /\ m_guard = Unlocked
    /\ m_jobsByPriority = [p \in Priority |-> <<>>]
    /\ m_workers = [w \in Workers |-> TRUE]
    /\ pc = [w \in Workers |-> "loop"]
    /\ job = [w \in Workers |-> NoJob]
    /\ cpc = [c \in Callers |-> "idle"]
    /\ cjob = [c \in Callers |-> NoJob]
    /\ submitted = <<>>
    /\ result = <<>>
    /\ spc = "idle"
    /\ joinIdx = 1
    /\ sdCalls = 0
    /\ sdError = FALSE
    /\ m_impl = [o \in PoolObjects |-> IF o = "first" THEN "impl" ELSE "unborn"]
    /\ startedLate = [w \in Workers |-> 0]
    /\ started = <<>>
    /\ preShutdown = {}

workerVars == <<pc, job>>
callerVars == <<cpc, cjob>>
shutdownVars == <<spc, joinIdx, sdCalls, sdError, preShutdown, m_workers>>
histVars == <<started>>

\* ---------------------------------------------------------------- workers
\* while (m_running): the loop condition, read without m_guard
LoopConditionFalse == FALSE
LoopConditionTrue == TRUE
LoopCondition == m_running

WorkerLoop(w) ==
    /\ pc[w] = "loop"
    /\ pc' = [pc EXCEPT ![w] = IF LoopCondition THEN "lock" ELSE "done"]
    /\ UNCHANGED <<threadCount, m_impl, startedLate, m_running, m_guard, m_jobsByPriority, job,
                   callerVars, submitted, result, shutdownVars, histVars>>

\* std::unique_lock<std::mutex> ul(m_guard)
WorkerLock(w) ==
    /\ pc[w] = "lock"
    /\ m_guard = Unlocked
    /\ m_guard' = WorkerId(w)
    /\ pc' = [pc EXCEPT ![w] = "pred"]
    /\ UNCHANGED <<threadCount, m_impl, startedLate, m_running, m_jobsByPriority, job,
                   callerVars, submitted, result, shutdownVars, histVars>>

\* wait(ul, pred): one evaluation of the predicate, with m_guard held
WorkerPredicate(w) ==
    /\ pc[w] = "pred"
    /\ pc' = [pc EXCEPT ![w] = IF WaitPredicate THEN "scan" ELSE "towait"]
    /\ UNCHANGED <<threadCount, m_impl, startedLate, m_running, m_guard, m_jobsByPriority, job,
                   callerVars, submitted, result, shutdownVars, histVars>>

\* wait(ul): release m_guard and block on m_cvSleepCtrl, atomically
WorkerWait(w) ==
    /\ pc[w] = "towait"
    /\ m_guard' = Unlocked
    /\ pc' = [pc EXCEPT ![w] = "blocked"]
    /\ UNCHANGED <<threadCount, m_impl, startedLate, m_running, m_jobsByPriority, job,
                   callerVars, submitted, result, shutdownVars, histVars>>

\* a spurious wake-up of wait(ul)
SpuriousWake(w) ==
    /\ pc[w] = "blocked"
    /\ pc' = [pc EXCEPT ![w] = "woken"]
    /\ UNCHANGED <<threadCount, m_impl, startedLate, m_running, m_guard, m_jobsByPriority, job,
                   callerVars, submitted, result, shutdownVars, histVars>>

\* wait(ul) returns: m_guard is taken again, the predicate is evaluated again
WorkerReacquire(w) ==
    /\ pc[w] = "woken"
    /\ m_guard = Unlocked
    /\ m_guard' = WorkerId(w)
    /\ pc' = [pc EXCEPT ![w] = "pred"]
    /\ UNCHANGED <<threadCount, m_impl, startedLate, m_running, m_jobsByPriority, job,
                   callerVars, submitted, result, shutdownVars, histVars>>

\* the scope of ul ends after the scan, before job() is called
GuardHeldAfterScan(w) == WorkerId(w)
GuardAfterScan(w) == Unlocked

\* the range-for that moves the front of the first non-empty queue into job,
\* then the end of the locked block
WorkerScanStep(w) ==
    /\ pc[w] = "scan"
    /\ LET p == DequeueScan(m_jobsByPriority) IN
       IF p = -1
       THEN /\ pc' = [pc EXCEPT ![w] = "loop"]
            /\ UNCHANGED <<m_jobsByPriority, job, started>>
       ELSE LET j == QueueFront(m_jobsByPriority[p]) IN
            /\ job' = [job EXCEPT ![w] = j]
            /\ m_jobsByPriority' =
                   [m_jobsByPriority EXCEPT ![p] = QueuePop(m_jobsByPriority[p])]
            /\ started' = [started EXCEPT ![j] = started[j] + 1]
            /\ pc' = [pc EXCEPT ![w] = "exec"]
    /\ m_guard' = GuardAfterScan(w)
    /\ UNCHANGED <<threadCount, m_impl, m_running, callerVars, submitted, result,
                   shutdownVars>>

WorkerScan(w) ==
    /\ WorkerScanStep(w)
    /\ UNCHANGED startedLate

\* the same step, with the history of the dequeues made after m_running was
\* cleared
WorkerScanCounted(w) ==
    /\ WorkerScanStep(w)
    /\ startedLate' =
           [startedLate EXCEPT
               ![w] = IF pc'[w] = "exec" /\ m_running = FALSE THEN @ + 1 ELSE @]

\* if (job != nullptr) job();  then the next iteration of the while loop.
\* Whether the callable throws is decided when it runs.
WorkerExecute(w) ==
    /\ pc[w] = "exec"
    /\ \E throws \in BOOLEAN :
          /\ result' = [result EXCEPT ![job[w]] = PackagedTaskOutcome(throws)]
          /\ pc' = [pc EXCEPT ![w] = IF JobEscapes(throws) THEN "terminated" ELSE "loop"]
    /\ job' = [job EXCEPT ![w] = NoJob]
    /\ UNCHANGED <<threadCount, m_impl, startedLate, m_running, m_guard, m_jobsByPriority,
                   callerVars, submitted, shutdownVars, started>>

\* ------------------------------------------------------------- submitters
\* Schedule makes the packaged_task; AddJob: std::unique_lock ul(m_guard), then
\* m_jobsByPriority[priority].emplace(std::move(job)).  Job ids are given in the
\* order in which the submitters take m_guard.
\* ul lives to the end of AddJob: m_guard stays held after the emplace
GuardReleasedAfterEmplace(c) == Unlocked
GuardAfterEmplace(c) == CallerId(c)

AddJobEmplace(c) ==
    /\ cpc[c] = "idle"
    /\ Owner # {}
    /\ Len(submitted) < MaxJobs
    /\ m_guard = Unlocked
    /\ m_guard' = GuardAfterEmplace(c)
    /\ \E p \in Priority :
          /\ submitted' = Append(submitted, p)
          /\ m_jobsByPriority' =
                 [m_jobsByPriority EXCEPT
                     ![p] = QueueEmplace(m_jobsByPriority[p], Len(submitted) + 1)]
    /\ result' = Append(result, "pending")
    /\ started' = Append(started, 0)
    /\ cjob' = [cjob EXCEPT ![c] = Len(submitted) + 1]
    /\ cpc' = [cpc EXCEPT ![c] = "emplaced"]
    /\ UNCHANGED <<threadCount, m_impl, startedLate, m_running, workerVars, shutdownVars>>

\* m_cvSleepCtrl.notify_one()
AddJobNotify(c) ==
    /\ cpc[c] = "emplaced"
    /\ \E S \in NotifyOne(Blocked) :
          pc' = [w \in Workers |-> IF w \in S THEN "woken" ELSE pc[w]]
    /\ cpc' = [cpc EXCEPT ![c] = "notified"]
    /\ UNCHANGED <<threadCount, m_impl, startedLate, m_running, m_guard, m_jobsByPriority, job, cjob,
                   submitted, result, shutdownVars, histVars>>

\* the destructor of ul at the end of AddJob; Schedule returns the future
AddJobUnlock(c) ==
    /\ cpc[c] = "notified"
    /\ m_guard' = Unlocked
    /\ cpc' = [cpc EXCEPT ![c] = "idle"]
    /\ cjob' = [cjob EXCEPT ![c] = NoJob]
    /\ UNCHANGED <<threadCount, m_impl, startedLate, m_running, m_jobsByPriority, workerVars,
                   submitted, result, shutdownVars, histVars>>

\* --------------------------------------------------------------- Shutdown
\* m_running = false: the value Shutdown stores in the flag
FlagToggled == ~m_running
FlagStored == FALSE

ShutdownSetFlag ==
    /\ spc = "idle"
    /\ Owner # {}
    /\ sdCalls < MaxShutdownCalls
    /\ ~sdError
    /\ m_running' = FlagStored
    /\ preShutdown' = IF sdCalls = 0 THEN Scheduled ELSE preShutdown
    /\ spc' = "notify"
    /\ UNCHANGED <<threadCount, m_impl, startedLate, m_guard, m_jobsByPriority, m_workers, workerVars,
                   callerVars, submitted, result, joinIdx, sdCalls, sdError, histVars>>

\* m_cvSleepCtrl.notify_all()
ShutdownNotifyAll ==
    /\ spc = "notify"
    /\ pc' = [w \in Workers |-> IF w \in NotifyAll(Blocked) THEN "woken" ELSE pc[w]]
    /\ spc' = "join"
    /\ joinIdx' = 1
    /\ UNCHANGED <<threadCount, m_impl, startedLate, m_running, m_guard, m_jobsByPriority, m_workers, job,
                   callerVars, submitted, result, sdCalls, sdError, preShutdown,
                   histVars>>

\* if (worker.joinable())
JoinAlways(w) == TRUE
JoinNever(w) == FALSE
ShouldJoin(w) == m_workers[w]

\* worker.join() returns when the thread has finished
JoinReturnsAtOnce(w) == TRUE
JoinReturns(w) == pc[w] \in {"done", "terminated"}

\* one iteration of for (auto& worker : m_workers)
ShutdownJoin ==
    /\ spc = "join"
    /\ joinIdx <= Len(m_workers)
    /\ IF ShouldJoin(joinIdx)
       THEN IF m_workers[joinIdx]
            THEN /\ JoinReturns(joinIdx)
                 /\ m_workers' = [m_workers EXCEPT ![joinIdx] = FALSE]
                 /\ joinIdx' = joinIdx + 1
                 /\ UNCHANGED <<spc, sdError>>
            ELSE \* join() of a thread that is not joinable throws std::system_error
                 /\ sdError' = TRUE
                 /\ spc' = "idle"
                 /\ UNCHANGED <<m_workers, joinIdx>>
       ELSE /\ joinIdx' = joinIdx + 1
            /\ UNCHANGED <<m_workers, spc, sdError>>
    /\ UNCHANGED <<threadCount, m_impl, startedLate, m_running, m_guard, m_jobsByPriority, workerVars,
                   callerVars, submitted, result, sdCalls, preShutdown, histVars>>

\* the range-for is over: Shutdown returns
ShutdownReturn ==
    /\ spc = "join"
    /\ joinIdx > Len(m_workers)
    /\ spc' = "idle"
    /\ sdCalls' = sdCalls + 1
    /\ UNCHANGED <<threadCount, m_impl, startedLate, m_running, m_guard, m_jobsByPriority, m_workers,
                   workerVars, callerVars, submitted, result, joinIdx, sdError,
                   preShutdown, histVars>>

\* ThreadPool::~ThreadPool: the call m_impl->Shutdown() is over, the members are
\* destroyed and the unique_ptr deletes the impl.  No thread is inside Schedule
\* on an object that is being destroyed.
DestructorReturn ==
    /\ spc = "join"
    /\ joinIdx > Len(m_workers)
    /\ \A c \in Callers : cpc[c] = "idle"
    /\ \E o \in Owner : m_impl' = [m_impl EXCEPT ![o] = "deleted"]
    /\ spc' = "idle"
    /\ sdCalls' = sdCalls + 1
    /\ UNCHANGED <<threadCount, startedLate, m_running, m_guard, m_jobsByPriority,
                   m_workers,
                   workerVars, callerVars, submitted, result, joinIdx, sdError,
                   preShutdown, histVars>>

\* ------------------------------------------------------------------- Next
Worker(w) ==
    \/ WorkerLoop(w)
    \/ WorkerLock(w)
    \/ WorkerPredicate(w)
    \/ WorkerWait(w)
    \/ WorkerReacquire(w)
    \/ WorkerScan(w)
    \/ WorkerExecute(w)

AddJob(c) ==
    \/ AddJobEmplace(c)
    \/ AddJobNotify(c)
    \/ AddJobUnlock(c)

Shutdown ==
    \/ ShutdownSetFlag
    \/ ShutdownNotifyAll
    \/ ShutdownJoin
    \/ ShutdownReturn

Next ==
    \/ \E w \in Workers : Worker(w)
    \/ \E w \in Workers : SpuriousWake(w)
    \/ \E c \in Callers : AddJob(c)
    \/ Shutdown
    \/ DestructorReturn

Spec == Init /\ [][Next]_vars

\* the pool with the dequeues after the flag was cleared counted per worker.
WorkerCounted(w) ==
    \/ WorkerLoop(w)
    \/ WorkerLock(w)
    \/ WorkerPredicate(w)
    \/ WorkerWait(w)
    \/ WorkerReacquire(w)
    \/ WorkerScanCounted(w)
    \/ WorkerExecute(w)

\* Followed until the first call of Shutdown returns: every worker has
\* terminated by then, so nothing is dequeued later.
NextCounted ==
    \/ \E w \in Workers : sdCalls = 0 /\ WorkerCounted(w)
    \/ \E w \in Workers : sdCalls = 0 /\ SpuriousWake(w)
    \/ \E c \in Callers : sdCalls = 0 /\ AddJob(c)
    \/ sdCalls = 0 /\ ShutdownSetFlag
    \/ sdCalls = 0 /\ ShutdownNotifyAll
    \/ sdCalls = 0 /\ ShutdownJoin
    \/ sdCalls = 0 /\ ShutdownReturn
    \/ sdCalls = 0 /\ DestructorReturn

CountSpec == Init /\ [][NextCounted]_vars

\* ---------------------------------------------------- ownership transfer
\* ThreadPool second(std::move(first)): the defaulted move constructor moves
\* the unique_ptr, which leaves first.m_impl == nullptr.
MoveConstruct ==
    /\ spc = "idle"
    /\ m_impl["first"] = "impl"
    /\ m_impl["second"] = "unborn"
    /\ m_impl' = [m_impl EXCEPT !["first"] = "nullptr", !["second"] = "impl"]
    /\ UNCHANGED <<threadCount, startedLate, m_running, m_guard, m_jobsByPriority,
                   m_workers,
                   workerVars, callerVars, submitted, result, spc, joinIdx, sdCalls,
                   sdError, preShutdown, histVars>>

\* ~ThreadPool of the moved-from object: m_impl->Shutdown() is called through a
\* null pointer and writes m_running of no object.  The behaviour is undefined:
\* the write faults and the process dies ("crashed"), or the build made
\* nothing observable of it ("gone").
NullDereference == {"crashed", "gone"}
DestructMovedFrom ==
    /\ spc = "idle"
    /\ \E o \in PoolObjects :
          /\ m_impl[o] = "nullptr"
          /\ \E outcome \in NullDereference : m_impl' = [m_impl EXCEPT ![o] = outcome]
    /\ UNCHANGED <<threadCount, startedLate, m_running, m_guard, m_jobsByPriority,
                   m_workers,
                   workerVars, callerVars, submitted, result, spc, joinIdx, sdCalls,
                   sdError, preShutdown, histVars>>

Crashed == \E o \in PoolObjects : m_impl[o] = "crashed"

\* the pool in a program that moves it; nothing runs in a process that died
NextMove ==
    \/ \E w \in Workers : ~Crashed /\ Worker(w)
    \/ \E w \in Workers : ~Crashed /\ SpuriousWake(w)
    \/ \E c \in Callers : ~Crashed /\ AddJob(c)
    \/ ~Crashed /\ ShutdownSetFlag
    \/ ~Crashed /\ ShutdownNotifyAll
    \/ ~Crashed /\ ShutdownJoin
    \/ ~Crashed /\ ShutdownReturn
    \/ ~Crashed /\ DestructorReturn
    \/ ~Crashed /\ MoveConstruct
    \/ ~Crashed /\ DestructMovedFrom

MoveSpec == Init /\ [][NextMove]_vars

\* ------------------------------------------------- scheduling assumptions
\* A thread that can take a step does so; a thread that waits for m_guard gets
\* it when it is free again and again.  Neither a spurious wake-up nor a new
\* call of Schedule or Shutdown is ever forced.
WorkerFairness ==
    \A w \in 1..MaxThreads :
        /\ WF_vars(w \in Workers /\ (\/ WorkerLoop(w) \/ WorkerPredicate(w) \/ WorkerWait(w)
                                    \/ WorkerScan(w) \/ WorkerExecute(w)))
        /\ SF_vars(w \in Workers /\ (WorkerLock(w) \/ WorkerReacquire(w)))

CallerFairness ==
    \A c \in Callers : WF_vars(AddJobNotify(c) \/ AddJobUnlock(c))

ShutdownFairness ==
    WF_vars(ShutdownNotifyAll \/ ShutdownJoin \/ ShutdownReturn)

\* the pool with Shutdown never called
NextRunning ==
    \/ \E w \in Workers : Worker(w)
    \/ \E w \in Workers : SpuriousWake(w)
    \/ \E c \in Callers : AddJob(c)

LiveSpec == Init /\ [][NextRunning]_vars /\ WorkerFairness /\ CallerFairness

FairSpec == Init /\ [][Next]_vars /\ WorkerFairness /\ CallerFairness /\ ShutdownFairness

\* ------------------------------------------------- submissions without end
\* A caller that schedules again and again.  The jobs are finitely many ids:
\* a call of Schedule made after MaxJobs jobs were submitted gives its new job
\* the id of a job that is finished, whose packaged_task no thread refers to
\* any more.  The steps are those of AddJobEmplace.
AddJobEmplaceAgain(c) ==
    /\ cpc[c] = "idle"
    /\ Owner # {}
    /\ Len(submitted) = MaxJobs
    /\ m_guard = Unlocked
    /\ m_guard' = GuardAfterEmplace(c)
    /\ \E j \in Emplaced, p \in Priority :
          /\ result[j] # "pending"
          /\ submitted' = [submitted EXCEPT ![j] = p]
          /\ m_jobsByPriority' =
                 [m_jobsByPriority EXCEPT ![p] = QueueEmplace(m_jobsByPriority[p], j)]
          /\ result' = [result EXCEPT ![j] = "pending"]
          /\ started' = [started EXCEPT ![j] = 0]
          /\ cjob' = [cjob EXCEPT ![c] = j]
    /\ cpc' = [cpc EXCEPT ![c] = "emplaced"]
    /\ UNCHANGED <<threadCount, m_impl, startedLate, m_running, workerVars, shutdownVars>>

\* the pool with Shutdown never called and callers that never stop scheduling
NextForever ==
    \/ NextRunning
    \/ \E c \in Callers : AddJobEmplaceAgain(c)

ForeverSpec == Init /\ [][NextForever]_vars /\ WorkerFairness /\ CallerFairness

\* ----------------------------------------------------------------- claims
Queued == UNION {Range(m_jobsByPriority[p]) : p \in Priority}
Ready(j) == result[j] # "pending"
Dequeues(w) == pc[w] = "scan" /\ pc'[w] = "exec"

\* C1: a scan that finds queued jobs takes one of the highest priority that is
\* queued; with one worker every job dequeued before is ready by then, so a
\* Critical job queued together with a Normal job is ready before it.
C1_PriorityPrecedence ==
    [][\A w \in Workers :
          (pc[w] = "scan" /\ pc'[w] # "scan") =>
              /\ Queued # {} => Dequeues(w)
              /\ Dequeues(w) =>
                    /\ job'[w] \in Queued
                    /\ \A k \in Queued : submitted[k] <= submitted[job'[w]]
                    /\ threadCount = 1 =>
                          /\ \A k \in Emplaced \ Queued : Ready(k)
                          /\ \A k \in Queued : ~Ready(k)]_vars

\* the single worker runs the Critical job 2 while the Normal job 1, emplaced
\* before it, is still queued
C1_Witness ==
    /\ threadCount = 1
    /\ Len(submitted) >= 2
    /\ submitted[1] = Normal /\ submitted[2] = Critical
    /\ pc[1] = "exec" /\ job[1] = 2
    /\ 1 \in Queued

\* C2: a scan never takes a job while a job of the same priority that was
\* emplaced earlier (smaller id) is still queued.
C2_FifoWithinLevel ==
    [][\A w \in Workers :
          Dequeues(w) =>
              \A k \in Queued : submitted[k] = submitted[job'[w]] => job'[w] <= k]_vars

\* with two workers, job 1 was taken while job 2 of the same priority was queued
C2_Witness ==
    /\ threadCount = 2
    /\ Len(submitted) >= 2
    /\ submitted[1] = submitted[2]
    /\ \E w \in Workers : pc[w] = "exec" /\ job[w] = 1
    /\ 2 \in Queued

\* C3: in a pool with at least one worker on which Shutdown is never called,
\* every emplaced job eventually has its result ready (results stay ready and
\* the jobs are finitely many: again and again every emplaced job is ready),
\* and no worker stays blocked for ever while some queue is non-empty.
C3_EventuallyExecuted ==
    /\ []<>(WorkerCount(threadCount) >= 1 => \A j \in Emplaced : Ready(j))
    /\ []<>(\A w \in Workers : pc[w] # "blocked" \/ AllQueuesEmpty)

\* every job the bound allows was submitted and is ready, the workers wait again
C3_Witness ==
    /\ threadCount >= 1
    /\ Len(submitted) = MaxJobs
    /\ \A j \in Emplaced : Ready(j)
    /\ \A w \in Workers : pc[w] = "blocked"

\* C4: no job is dequeued twice; a job that is not ready yet is held in exactly
\* one place, a queue position or one worker, and a finished job in none.
Holders(j) ==
    Count(m_jobsByPriority[Normal], j) + Count(m_jobsByPriority[High], j)
    + Count(m_jobsByPriority[Critical], j) + Cardinality({w \in Workers : job[w] = j})
C4_NoDoubleDelivery ==
    \A j \in Emplaced :
        /\ started[j] <= 1
        /\ Holders(j) = (IF Ready(j) THEN 0 ELSE 1)
        /\ (started[j] = 0) <=> (j \in Queued)
        /\ Ready(j) => started[j] = 1

\* two workers run two different jobs at the same time
C4_Witness ==
    \E w1, w2 \in Workers :
        /\ w1 # w2
        /\ pc[w1] = "exec" /\ pc[w2] = "exec"
        /\ job[w1] # job[w2]

\* C5: a dequeued job stays with its worker, which executes it, until its
\* result is ready, also while Shutdown is in progress; once Shutdown has
\* returned no worker executes and every job that was ever dequeued is ready.
C5_DrainOnShutdown ==
    /\ \A j \in Emplaced :
          (started[j] >= 1 /\ ~Ready(j)) => \E w \in Workers : pc[w] = "exec" /\ job[w] = j
    /\ sdCalls >= 1 =>
          /\ \A w \in Workers : pc[w] = "done" /\ job[w] = NoJob
          /\ \A j \in Emplaced : started[j] >= 1 => Ready(j)

\* Shutdown has cleared the flag and woken the workers, and waits in join() for
\* a worker that is still executing the job it holds
C5_Witness ==
    /\ spc = "join"
    /\ sdCalls = 0
    /\ joinIdx \in Workers
    /\ m_workers[joinIdx]
    /\ pc[joinIdx] = "exec"
    /\ ~Ready(job[joinIdx])

\* C6: a call of Shutdown eventually returns.
C6_ShutdownTerminates == (spc # "idle") ~> (spc = "idle")

\* C7 as stated: in a pool with at least one worker, once Shutdown has
\* returned, every job submitted before the call has been executed exactly once.
C7_AllRunAfterShutdown ==
    (threadCount >= 1 /\ sdCalls >= 1) =>
        \A j \in preShutdown : started[j] = 1 /\ Ready(j)

\* C7 as amended: once Shutdown has returned, every job submitted before the
\* call has been dequeued at most once; if it was dequeued its result is ready,
\* and otherwise it is still in its queue, not executed.
C7_AfterShutdown ==
    sdCalls >= 1 =>
        \A j \in preShutdown :
            /\ started[j] <= 1
            /\ started[j] = 1 => (Ready(j) /\ j \notin Queued)
            /\ started[j] = 0 => (~Ready(j) /\ j \in Queued)

\* Shutdown returned in a pool with workers: one job submitted before the call
\* was run, another is left in its queue
C7_Witness ==
    /\ sdCalls >= 1
    /\ threadCount >= 1
    /\ \E j \in preShutdown : started[j] = 1 /\ Ready(j)
    /\ \E j \in preShutdown : started[j] = 0 /\ j \in Queued

\* C8: after a first call of Shutdown has returned, no step of a later call
\* changes the flag, the thread handles, the queues or the workers, none throws
\* or blocks, and the state stays: flag false, no thread joinable.
ShutdownStep == <<spc, joinIdx, sdCalls, sdError>>' # <<spc, joinIdx, sdCalls, sdError>>
C8_IdempotentShutdown ==
    [][(sdCalls >= 1 /\ ShutdownStep) =>
          /\ UNCHANGED <<m_running, m_workers, m_jobsByPriority, pc, job, result>>
          /\ m_running' = FALSE
          /\ \A w \in Workers : ~m_workers'[w] /\ pc'[w] = "done"
          /\ ~sdError'
          /\ spc' = "join" => (joinIdx' > Len(m_workers) \/ ~m_workers[joinIdx'])]_vars

\* a second call of Shutdown has returned in a pool that has workers
C8_Witness ==
    /\ sdCalls = 2
    /\ threadCount >= 1
    /\ spc = "idle"

\* C9: a pool constructed with thread count 0 has at least one worker thread
\* to run the job that a call of Schedule has put in a queue.
C9_ZeroCoerced ==
    (threadCount = 0 /\ Queued # {} /\ \A c \in Callers : cpc[c] = "idle") =>
        Cardinality(DOMAIN pc) >= 1

\* C10: a worker that has run a job, whether the callable threw or not, is
\* back at the head of its loop, and the outcome is in the job's result.
C10_JobFailureLocal ==
    [][\A w \in Workers :
          (pc[w] = "exec" /\ pc'[w] # "exec") =>
              /\ pc'[w] = "loop"
              /\ result'[job[w]] \in {"value", "error"}
              /\ \A v \in Workers : pc'[v] # "terminated"]_vars

\* the only worker ran job 1, which threw, and then ran job 2
C10_Witness ==
    /\ threadCount = 1
    /\ Len(submitted) >= 2
    /\ submitted[1] = submitted[2]
    /\ result[1] = "error" /\ result[2] = "value"
    /\ pc[1] # "terminated"

\* C11: once m_running is false no worker takes a job out of a queue: every
\* step in which a scan dequeues is taken while m_running is still true.
C11_NoDequeueAfterFlag ==
    [][\A w \in Workers : Dequeues(w) => m_running]_vars

\* C12: the impl is deleted only by a destructor that has run Shutdown: when it
\* is deleted the flag is false, every worker has left its loop and has been
\* joined, and from then on no worker takes a step and the queues, the flag,
\* the lock and the thread handles are not touched again.
C12_ShutdownThenJoin ==
    [][/\ Reclaimed' =>
            /\ sdCalls' >= 1
            /\ m_running' = FALSE
            /\ \A w \in Workers : pc'[w] = "done" /\ ~m_workers'[w]
       /\ Reclaimed =>
            UNCHANGED <<pc, job, m_running, m_guard, m_jobsByPriority, m_workers>>]_vars

\* a pool with two workers was destroyed without an earlier call of Shutdown,
\* after a job had run
C12_Witness ==
    /\ Reclaimed
    /\ threadCount = 2
    /\ sdCalls = 1
    /\ \E j \in Emplaced : Ready(j)

\* C13: after the pool was moved, the destructor of every object involved,
\* the moved-from one included, completes without error, and once all of them
\* are destroyed every worker has been joined.
C13_MoveThenDestroy ==
    /\ ~Crashed
    /\ (\A o \in PoolObjects : m_impl[o] \in {"deleted", "gone"}) =>
          \A w \in Workers : pc[w] = "done" /\ ~m_workers[w]

\* C14: job ids are given in the order in which the submitters take m_guard.
\* Every queue holds only jobs of its own priority, in increasing id order, so
\* in lock order; and every emplaced job that no worker has taken yet is in the
\* queue of its priority exactly once and in no other queue.
C14_SerializedSubmission ==
    /\ \A p \in Priority :
          \A i, k \in 1..Len(m_jobsByPriority[p]) :
              /\ submitted[m_jobsByPriority[p][i]] = p
              /\ i < k => m_jobsByPriority[p][i] < m_jobsByPriority[p][k]
    /\ \A j \in Emplaced :
          started[j] = 0 =>
              \A p \in Priority :
                  Count(m_jobsByPriority[p], j) = (IF p = submitted[j] THEN 1 ELSE 0)

\* the second submitter holds m_guard and has just emplaced job 2 behind job 1
\* in the same queue, while the first submitter is idle again
C14_Witness ==
    /\ cpc[2] = "emplaced" /\ cjob[2] = 2
    /\ cpc[1] = "idle"
    /\ m_guard = CallerId(2)
    /\ \E p \in Priority : m_jobsByPriority[p] = <<1, 2>>

\* C15: every step that reads or writes m_running or m_jobsByPriority is taken
\* by the thread that holds m_guard: the worker's loop test, its wait predicate
\* and its scan, the emplace of AddJob, and the write of the flag by Shutdown.
ShutdownId == <<"shutdown">>
C15_EveryAccessLocked ==
    [][/\ \A w \in Workers :
             (pc[w] \in {"loop", "pred", "scan"} /\ pc'[w] # pc[w]) => m_guard = WorkerId(w)
       /\ \A c \in Callers :
             (cpc[c] = "idle" /\ cpc'[c] = "emplaced") => m_guard' = CallerId(c)
       /\ m_running' # m_running => m_guard = ShutdownId
       /\ m_jobsByPriority' # m_jobsByPriority => m_guard' # Unlocked \/ m_guard # Unlocked]_vars

\* C16 as stated: a worker that executes a job always comes back to take
\* m_guard and evaluate the wait predicate afterwards; it does not terminate
\* straight after the job.
C16_LoopsBackAfterJob ==
    \A w \in 1..MaxThreads :
        (w \in Workers /\ pc[w] = "exec") ~> (w \in Workers /\ pc[w] = "pred")

\* C16 as amended: a worker that has run a job goes back to the head of its
\* loop; a worker terminates only by the test at the head of the loop, with
\* m_running false, holding no job and not holding m_guard; and a scan that
\* finds no job happens only with m_running false.
C16_TerminatesAtLoopHead ==
    [][\A w \in Workers :
          /\ (pc[w] = "exec" /\ pc'[w] # "exec") => pc'[w] = "loop"
          /\ (pc[w] # "done" /\ pc'[w] = "done") =>
                /\ pc[w] = "loop"
                /\ m_running = FALSE
                /\ job[w] = NoJob
                /\ m_guard # WorkerId(w)
          /\ (pc[w] = "scan" /\ pc'[w] = "loop") => m_running = FALSE]_vars

\* the only worker has terminated right after job 1: job 2, scheduled before
\* Shutdown was called, is still queued, so no scan followed job 1
C16_Witness ==
    /\ threadCount = 1
    /\ pc[1] = "done"
    /\ preShutdown = {1, 2}
    /\ Ready(1)
    /\ 2 \in Queued

\* C17: a worker passes from the wait to the scan only when m_running is false
\* or some queue is non-empty, and it holds m_guard from the predicate through
\* the scan; a scan that finds no job is taken only with m_running false, and a
\* scan taken while m_running is true dequeues a job.
C17_WaitThenScan ==
    [][\A w \in Workers :
          /\ (pc[w] = "pred" /\ pc'[w] = "scan") =>
                /\ m_running = FALSE \/ ~AllQueuesEmpty
                /\ m_guard = WorkerId(w) /\ m_guard' = WorkerId(w)
          /\ pc[w] = "scan" =>
                /\ m_guard = WorkerId(w)
                /\ m_running = FALSE \/ ~AllQueuesEmpty
          /\ (pc[w] = "scan" /\ pc'[w] = "loop") => m_running = FALSE
          /\ (pc[w] = "scan" /\ pc'[w] # "scan" /\ m_running) => Dequeues(w)]_vars

\* in a running pool a worker was woken while another worker runs the only
\* job: the woken worker finds the queues empty
C17_Witness ==
    /\ m_running
    /\ AllQueuesEmpty
    /\ \A c \in Callers : cpc[c] = "idle"
    /\ \E w1, w2 \in Workers :
          /\ pc[w1] = "exec" /\ job[w1] = 1
          /\ pc[w2] = "woken"

\* C18 as stated: the submitter never signals while it still holds m_guard.
C18_SignalAfterUnlock ==
    [][\A c \in Callers :
          (cpc[c] = "emplaced" /\ cpc'[c] = "notified") => m_guard # CallerId(c)]_vars

\* C18 as amended: the submitter takes m_guard and appends the job to the queue
\* of its priority in one critical section, signals while it still holds
\* m_guard, with the job already in its queue, and releases m_guard only
\* after the signal.
C18_SignalUnderLock ==
    [][\A c \in Callers :
          /\ (cpc[c] = "idle" /\ cpc'[c] # "idle") =>
                /\ m_guard = Unlocked /\ m_guard' = CallerId(c)
                /\ cpc'[c] = "emplaced"
                /\ m_jobsByPriority'[submitted'[cjob'[c]]] =
                       Append(m_jobsByPriority[submitted'[cjob'[c]]], cjob'[c])
          /\ (cpc[c] = "emplaced" /\ cpc'[c] # "emplaced") =>
                /\ cpc'[c] = "notified"
                /\ m_guard = CallerId(c) /\ m_guard' = CallerId(c)
                /\ cjob[c] \in Queued
          /\ (cpc[c] = "notified" /\ cpc'[c] # "notified") =>
                /\ cpc'[c] = "idle"
                /\ m_guard = CallerId(c) /\ m_guard' = Unlocked]_vars

\* the submitter has signalled and still holds m_guard; the worker it woke
\* cannot take the lock yet
C18_Witness ==
    \E c \in Callers :
        /\ cpc[c] = "notified"
        /\ m_guard = CallerId(c)
        /\ \E w \in Workers : pc[w] = "woken"

\* C19: the signal of one AddJob moves exactly one blocked worker out of the
\* wait when some worker is blocked and none otherwise, never two; the signal
\* of Shutdown moves every blocked worker out of the wait.
WokenBy == {w \in Workers : pc[w] = "blocked" /\ pc'[w] = "woken"}
C19_NotifyOneNotifyAll ==
    [][/\ \A c \in Callers :
             (cpc[c] = "emplaced" /\ cpc'[c] = "notified") =>
                 Cardinality(WokenBy) = (IF Blocked = {} THEN 0 ELSE 1)
       /\ (spc = "notify" /\ spc' # "notify") => WokenBy = Blocked]_vars

\* a submitter has just signalled: of two workers that were blocked one is
\* woken and the other is still blocked, although a job is queued
C19_Witness ==
    /\ \E c \in Callers : cpc[c] = "notified"
    /\ ~AllQueuesEmpty
    /\ \E w1, w2 \in Workers : pc[w1] = "woken" /\ pc[w2] = "blocked"

\* C20: m_running is true when the pool is constructed and stays true until
\* the first call of Shutdown begins; the only step that writes it is the
\* first statement of Shutdown, and once it is false no step of a submitter,
\* a worker or a later call of Shutdown makes it true again.
C20_FlagMonotonic ==
    /\ m_running = TRUE
    /\ [][/\ m_running = FALSE => m_running' = FALSE
          /\ (sdCalls' = 0 /\ spc' = "idle") => m_running' = TRUE
          /\ m_running' # m_running => (spc = "idle" /\ spc' = "notify")]_vars

\* a second call of Shutdown has stored the flag again while a submitter has a
\* job queued: the flag is still false
C20_Witness ==
    /\ sdCalls = 1
    /\ spc = "notify"
    /\ m_running = FALSE
    /\ Queued # {}
    /\ threadCount >= 1

\* C21: a scan taken while the Critical queue is non-empty takes a Critical
\* job and leaves every queued Normal job where it is; so while the Critical
\* queue is non-empty at every scan, a queued Normal job is never dequeued.
C21_StrictPrecedence ==
    [][\A w \in Workers :
          (pc[w] = "scan" /\ pc'[w] # "scan" /\ m_jobsByPriority[Critical] # <<>>) =>
              /\ Dequeues(w)
              /\ submitted[job'[w]] = Critical
              /\ m_jobsByPriority'[Normal] = m_jobsByPriority[Normal]
              /\ m_jobsByPriority'[High] = m_jobsByPriority[High]]_vars

\* the statement that C21 denies: when all other jobs are Critical, every
\* queued Normal job is still dequeued at some time.  It does not hold when
\* scheduling never stops: the behaviour that refutes it is a fair execution
\* in which a Normal job stays queued for ever behind Critical jobs that keep
\* coming.
C21_NormalNeverStarves ==
    \A j \in 1..MaxJobs :
        []<>(WorkerCount(threadCount) >= 1 =>
                \/ j \notin Queued
                \/ \E k \in Emplaced : submitted[k] = High)

\* the Normal job 1 is still queued, never taken, while the Critical job 2,
\* emplaced after it, has already run and a worker is back at its scan
C21_Witness ==
    /\ threadCount >= 1
    /\ Len(submitted) >= 2
    /\ submitted[1] = Normal /\ submitted[2] = Critical
    /\ m_jobsByPriority[Normal] = <<1>>
    /\ Ready(2)
    /\ \E w \in Workers : pc[w] = "scan"

\* C22: with one worker at most one job is executing at any time and a job that
\* is dequeued is ready before the next one is dequeued, so completion order is
\* dequeue order; with two or more workers nothing orders the completions
\* (the witness: J2 completes while J1, submitted first, still executes).
C22_OneWorkerCompletesInOrder ==
    [][WorkerCount(threadCount) = 1 =>
          /\ Cardinality({j \in Emplaced : started[j] >= 1 /\ ~Ready(j)}) <= 1
          /\ \A w \in Workers :
                Dequeues(w) => \A k \in Emplaced : started[k] >= 1 => Ready(k)]_vars

\* two jobs of the same priority were executing at the same time on two
\* workers; J2 is complete, J1, submitted and dequeued first, still executes
C22_Witness ==
    /\ threadCount >= 2
    /\ Len(submitted) >= 2
    /\ submitted[1] = submitted[2]
    /\ Ready(2)
    /\ ~Ready(1)
    /\ \E w \in Workers : pc[w] = "exec" /\ job[w] = 1

\* C23: a worker that executes a job does not hold m_guard: the step that
\* dequeues releases it, the step that runs the job does not touch it, and a
\* worker holds at most the one job it executes; so while jobs execute the
\* lock is free or held by a thread that is not executing.
C23_JobsRunUnlocked ==
    [][\A w \in Workers :
          /\ Dequeues(w) => (m_guard = WorkerId(w) /\ m_guard' = Unlocked)
          /\ pc'[w] = "exec" => (m_guard' # WorkerId(w) /\ job'[w] # NoJob)
          /\ (pc[w] = "exec" /\ pc'[w] # "exec") => m_guard' = m_guard
          /\ pc'[w] # "exec" => job'[w] = NoJob]_vars

\* while a worker executes job 1, a submitter has taken m_guard and emplaced
\* job 2 without waiting for job 1 to finish
C23_Witness ==
    /\ \E w \in Workers : pc[w] = "exec" /\ job[w] = 1 /\ ~Ready(1)
    /\ \E c \in Callers : cpc[c] = "emplaced" /\ cjob[c] = 2 /\ m_guard = CallerId(c)

\* C24: after m_running was cleared every worker dequeues at most one more job,
\* so at most thread_count jobs are started after Shutdown begins; a worker
\* that has finished such a job terminates at the head of its loop.
C24_BoundedWorkAfterShutdown ==
    /\ \A w \in Workers :
          /\ startedLate[w] <= 1
          /\ startedLate[w] = 1 => pc[w] \in {"exec", "loop", "done"}
          /\ startedLate[w] = 1 => m_running = FALSE
    /\ Cardinality({w \in Workers : startedLate[w] >= 1}) <= WorkerCount(threadCount)

\* Shutdown has returned and each of the two workers had dequeued and run one
\* job after the flag was cleared
C24_Witness ==
    /\ threadCount = 2
    /\ sdCalls >= 1
    /\ \A w \in Workers : startedLate[w] = 1 /\ pc[w] = "done"
    /\ \A j \in Emplaced : Ready(j)

\* C25: once a call of Shutdown has returned, a job that is in a queue stays
\* there, never dequeued and its result never set, and a call of Schedule
\* still puts its job into the queue of its priority and returns, with no
\* error and no worker to take the job.
C25_NothingRunsAfterShutdown ==
    [][sdCalls >= 1 =>
          /\ \A j \in Queued :
                /\ j \in Queued'
                /\ started'[j] = 0
                /\ result'[j] = "pending"
          /\ \A c \in Callers :
                /\ (cpc[c] = "idle" /\ cpc'[c] # "idle") =>
                      (cpc'[c] = "emplaced" /\ cjob'[c] \in Queued')
                /\ (cpc[c] = "emplaced" /\ cpc'[c] # "emplaced") => cpc'[c] = "notified"
                /\ (cpc[c] = "notified" /\ cpc'[c] # "notified") => cpc'[c] = "idle"
          /\ \A w \in Workers : pc[w] = "done" /\ pc'[w] = "done"
          /\ sdError' = FALSE]_vars

\* Shutdown has returned with job 1 left in its queue; job 2, which was not
\* scheduled when Shutdown was called, has been accepted since and its call of
\* Schedule has returned; both are queued and not run
C25_Witness ==
    /\ sdCalls >= 1
    /\ spc = "idle"
    /\ threadCount >= 1
    /\ preShutdown = {1}
    /\ Queued = {1, 2}
    /\ \A c \in Callers : cpc[c] = "idle"
    /\ ~Ready(1) /\ ~Ready(2)

====
